---- MODULE Spec2Model ----
(***************************************************************************)
(* A model of fastapi_mongo_base:                                          *)
(*   - utils/conditions.py: the keyed condition registry (Conditions),     *)
(*     run by asyncio tasks.  A step of the model is one run of a task     *)
(*     between two suspension points of the event loop.                    *)
(*   - models.py / schemas.py: the query filter compiler (get_queryset     *)
(*     and its helpers) as operators over Python values.                   *)
(***************************************************************************)
EXTENDS Integers, Sequences, FiniteSets, TLC

\* ------------------------------------------------------------------ bounds
\* asyncio tasks that call wait_condition
NumTasks == 3

Tasks == 1..NumTasks
\* the uids used as registry keys: every call names one uid, so two uids show
\* every way a call on one can touch the state of another
Keys == {"uid1", "uid2"}
\* identities of asyncio.Condition objects; an identity is reused only when
\* no table entry and no task frame refers to it any more
Conds == 1..(NumTasks + Cardinality(Keys))

VARIABLES
    _conditions,  \* Conditions._conditions: the dict uid -> asyncio.Condition
    frames,       \* the suspended wait_condition calls: task -> [uid, condition, pc]
    locked,       \* the conditions whose lock is held
    last,         \* history: the call that took the last step, and whether it
                  \* found an entry for its uid in the table
    hashseed,     \* the interpreter's hash seed, fixed when the process starts
    request,      \* the arguments of the compiler call under way
    response,     \* what that call gave: [err, q], an exception or a predicate
    previous,     \* what the same call gave the time before
    store,        \* the collection of the entity kind: its documents, in the
                  \* order of their insertion
    now           \* the wall clock, as the last datetime.now() read it

regvars == <<_conditions, frames, locked, last>>
qvars == <<hashseed, request, response, previous>>
svars == <<store, now>>
vars == <<_conditions, frames, locked, last, hashseed, request, response, previous,
          store, now>>

\* ------------------------------------------------ utils/conditions.py helpers

\* the conditions some table entry or some frame refers to
LiveConds ==
    {_conditions[k] : k \in DOMAIN _conditions}
        \cup {frames[t].condition : t \in DOMAIN frames}

\* asyncio.Condition(): an object whose identity differs from every live one
NewCondition ==
    CHOOSE c \in Conds \ LiveConds : \A d \in Conds \ LiveConds : c <= d

\* get_condition: the table after the call; the call returns its entry for uid
get_condition(tbl, uid) ==
    IF uid \notin DOMAIN tbl
    THEN [k \in DOMAIN tbl \cup {uid} |-> IF k = uid THEN NewCondition ELSE tbl[k]]
    ELSE tbl

cleanup_condition_keeps(tbl, uid) == tbl

\* cleanup_condition: self._conditions.pop(uid, None)
cleanup_condition(tbl, uid) ==
    [k \in DOMAIN tbl \ {uid} |-> tbl[k]]

\* Lock.acquire on a free lock: taken at once, the task is not suspended
lock_acquire(held, c) == held \cup {c}

\* Condition.wait releases the lock before it suspends on its future
wait_unlock(held, c) == held \ {c}

aexit_keeps_lock(held, c) == held

\* Condition.__aexit__: the lock is released when the async with block ends
aexit(held, c) == held \ {c}

notify_every_condition(fr, c) ==
    [t \in DOMAIN fr |->
        IF fr[t].pc = "waiting" THEN [fr[t] EXCEPT !.pc = "notified"] ELSE fr[t]]

\* Condition.notify_all: the future of every task waiting on c is resolved
notify_all(fr, c) ==
    [t \in DOMAIN fr |->
        IF fr[t].condition = c /\ fr[t].pc = "waiting"
        THEN [fr[t] EXCEPT !.pc = "notified"]
        ELSE fr[t]]

release_table_keeps_entry(tbl, uid) == get_condition(tbl, uid)

\* release_condition, its effect on the table: nothing when uid has no entry,
\* else get_condition (which finds the entry) and, after the notify,
\* cleanup_condition
release_table(tbl, uid) ==
    IF uid \notin DOMAIN tbl
    THEN tbl
    ELSE cleanup_condition(get_condition(tbl, uid), uid)

\* release_condition, its effect on the waiters
release_frames(tbl, fr, uid) ==
    IF uid \notin DOMAIN tbl
    THEN fr
    ELSE notify_all(fr, get_condition(tbl, uid)[uid])

\* ------------------------------------------------------------ registry state

RegInit ==
    /\ _conditions = << >>
    /\ frames = << >>
    /\ locked = {}
    /\ last = [op |-> "init", uid |-> "none", found |-> FALSE]

\* an empty collection, the clock at its origin
StoreIdle ==
    /\ store = << >>
    /\ now = 0

wait_condition_sticky(t, uid) ==
    /\ t \notin DOMAIN frames
    /\ IF uid \notin DOMAIN _conditions /\ \E x \in DOMAIN frames : frames[x].uid = uid
       THEN UNCHANGED <<_conditions, frames, locked>>
       ELSE LET tbl == get_condition(_conditions, uid)
            IN  /\ _conditions' = tbl
                /\ frames' = [x \in DOMAIN frames \cup {t} |->
                                IF x = t
                                THEN [uid |-> uid, condition |-> tbl[uid],
                                      pc |-> "waiting"]
                                ELSE frames[x]]
                /\ UNCHANGED locked
    /\ last' = [op |-> "wait", uid |-> uid, found |-> uid \in DOMAIN _conditions]
    /\ UNCHANGED <<qvars, svars>>

\* wait_condition up to its suspension in condition.wait(): get_condition,
\* the lock taken (free, so without suspension), then wait() gives the lock
\* back and parks the task on a future of the condition
wait_condition(t, uid) ==
    LET tbl == get_condition(_conditions, uid)
        c == tbl[uid]
    IN  /\ t \notin DOMAIN frames
        /\ c \notin locked
        /\ _conditions' = tbl
        /\ frames' = [x \in DOMAIN frames \cup {t} |->
                        IF x = t
                        THEN [uid |-> uid, condition |-> c, pc |-> "waiting"]
                        ELSE frames[x]]
        /\ locked' = wait_unlock(lock_acquire(locked, c), c)
        /\ last' = [op |-> "wait", uid |-> uid, found |-> uid \in DOMAIN _conditions]
        /\ UNCHANGED <<qvars, svars>>

\* release_condition: the whole call runs without suspension
release_condition(uid) ==
    /\ uid \in DOMAIN _conditions => _conditions[uid] \notin locked
    /\ _conditions' = release_table(_conditions, uid)
    /\ frames' = release_frames(_conditions, frames, uid)
    /\ locked' = IF uid \in DOMAIN _conditions
                 THEN aexit(lock_acquire(locked, _conditions[uid]), _conditions[uid])
                 ELSE locked
    /\ last' = [op |-> "release", uid |-> uid, found |-> uid \in DOMAIN _conditions]
    /\ UNCHANGED <<qvars, svars>>

\* wait_condition after its future was resolved: wait() takes the lock again,
\* the async with block ends, cleanup_condition, return
wait_condition_resume(t) ==
    /\ t \in DOMAIN frames
    /\ frames[t].pc = "notified"
    /\ frames[t].condition \notin locked
    /\ locked' = aexit(lock_acquire(locked, frames[t].condition), frames[t].condition)
    /\ _conditions' = cleanup_condition(_conditions, frames[t].uid)
    /\ frames' = [x \in DOMAIN frames \ {t} |-> frames[x]]
    /\ last' = [op |-> "resume", uid |-> frames[t].uid,
                found |-> frames[t].uid \in DOMAIN _conditions]
    /\ UNCHANGED <<qvars, svars>>

\* ------------------------------------------------------------ Python values
\* A value is [t, s, e]: its type, its text (a sequence of lexemes, for str
\* and int) and its elements (for list and tuple).

\* longest str drawn as a raw filter value, in lexemes
MaxStrLen == 4
\* longest list or tuple drawn as a raw filter value
MaxListLen == 2
\* most entries of a raw filter map
MaxFilters == 2

\* the lexemes of the strings drawn: brackets, comma, blank, a digit, a bare
\* letter and a quoted JSON string
Lexemes == {"[", "]", ",", " ", "1", "a", "\"a\""}

None == [t |-> "None", s |-> << >>, e |-> << >>]
PyBool(b) == [t |-> "bool", s |-> <<IF b THEN "True" ELSE "False">>, e |-> << >>]
PyInt(digits) == [t |-> "int", s |-> digits, e |-> << >>]
PyStr(text) == [t |-> "str", s |-> text, e |-> << >>]
PyUUID(name) == [t |-> "UUID", s |-> <<name>>, e |-> << >>]
PyDict == [t |-> "dict", s |-> << >>, e |-> << >>]
PyList(elems) == [t |-> "list", s |-> << >>, e |-> elems]
PyTuple(elems) == [t |-> "tuple", s |-> << >>, e |-> elems]

\* bool(value) for the values passed as scope arguments
Truthy(v) ==
    CASE v.t = "None" -> FALSE
      [] v.t = "bool" -> v.s = <<"True">>
      [] v.t \in {"str", "int"} -> v.s # << >>
      [] v.t \in {"list", "tuple"} -> v.e # << >>
      [] OTHER -> TRUE

RECURSIVE Hashable(_)
\* hash(value) succeeds: not a list, not a dict, and a tuple only when each
\* of its elements is hashable
Hashable(v) ==
    CASE v.t \in {"list", "dict"} -> FALSE
      [] v.t = "tuple" -> \A i \in 1..Len(v.e) : Hashable(v.e[i])
      [] OTHER -> TRUE

LexRank(x) ==
    CASE x = " " -> 1 [] x = "\"a\"" -> 2 [] x = "," -> 3 [] x = "1" -> 4
      [] x = "[" -> 5 [] x = "]" -> 6 [] x = "a" -> 7 [] OTHER -> 8

RECURSIVE TextRank(_)
TextRank(text) ==
    IF text = << >> THEN 0
    ELSE TextRank(SubSeq(text, 1, Len(text) - 1)) * 9 + LexRank(text[Len(text)])

TypeRank(v) ==
    CASE v.t = "None" -> 0 [] v.t = "bool" -> 1 [] v.t = "int" -> 2
      [] v.t = "str" -> 3 [] v.t = "UUID" -> 4 [] OTHER -> 5

\* the place of a hashable value in the iteration order of a set: the order
\* is fixed by the interpreter's hash seed, ascending under one seed and
\* descending under the other
HashRank(v) == TextRank(v.s) * 6 + TypeRank(v)

RECURSIVE SetToList(_, _)
\* list(a_set): the elements in the set's iteration order
SetToList(S, seed) ==
    IF S = {} THEN << >>
    ELSE LET x == CHOOSE y \in S : \A z \in S :
                    IF seed = 0 THEN HashRank(y) <= HashRank(z)
                    ELSE HashRank(y) >= HashRank(z)
         IN  <<x>> \o SetToList(S \ {x}, seed)

\* list(set(elems)): TypeError when an element is unhashable
ListOfSet(elems, seed) ==
    IF \E i \in 1..Len(elems) : ~Hashable(elems[i])
    THEN [err |-> "TypeError", v |-> None]
    ELSE [err |-> "none", v |-> PyList(SetToList({elems[i] : i \in 1..Len(elems)}, seed))]

\* ------------------------------------------------------------------ str

IsBlank(x) == x = " "

RECURSIVE LStrip(_)
LStrip(text) ==
    IF text # << >> /\ IsBlank(text[1]) THEN LStrip(Tail(text)) ELSE text

RECURSIVE RStrip(_)
RStrip(text) ==
    IF text # << >> /\ IsBlank(text[Len(text)])
    THEN RStrip(SubSeq(text, 1, Len(text) - 1))
    ELSE text

\* str.strip()
Strip(text) == RStrip(LStrip(text))

RECURSIVE Split(_, _)
\* str.split(","): cur is the piece being read
Split(text, cur) ==
    IF text = << >> THEN <<cur>>
    ELSE IF text[1] = "," THEN <<cur>> \o Split(Tail(text), << >>)
    ELSE Split(Tail(text), Append(cur, text[1]))

\* ------------------------------------------------------------ json.loads
\* A parse of text from place i gives [ok, v, i]: whether a value was read,
\* the value, and the place after it.

JsonFail == [ok |-> FALSE, v |-> None, i |-> 0]

RECURSIVE SkipBlank(_, _)
SkipBlank(text, i) ==
    IF i <= Len(text) /\ IsBlank(text[i]) THEN SkipBlank(text, i + 1) ELSE i

RECURSIVE DigitsEnd(_, _)
DigitsEnd(text, i) ==
    IF i <= Len(text) /\ text[i] = "1" THEN DigitsEnd(text, i + 1) ELSE i

RECURSIVE JsonValue(_, _)
RECURSIVE JsonElems(_, _, _)

\* a number, a string or an array at place i
JsonValue(text, i) ==
    IF i > Len(text) THEN JsonFail
    ELSE IF text[i] = "1"
    THEN [ok |-> TRUE, v |-> PyInt(SubSeq(text, i, DigitsEnd(text, i) - 1)),
          i |-> DigitsEnd(text, i)]
    ELSE IF text[i] = "\"a\""
    THEN [ok |-> TRUE, v |-> PyStr(<<"a">>), i |-> i + 1]
    ELSE IF text[i] = "["
    THEN LET j == SkipBlank(text, i + 1)
         IN  IF j <= Len(text) /\ text[j] = "]"
             THEN [ok |-> TRUE, v |-> PyList(<< >>), i |-> j + 1]
             ELSE JsonElems(text, j, << >>)
    ELSE JsonFail

\* the elements of an array from place i on, acc the elements read so far
JsonElems(text, i, acc) ==
    LET r == JsonValue(text, i)
        j == SkipBlank(text, r.i)
    IN  IF ~r.ok \/ j > Len(text) THEN JsonFail
        ELSE IF text[j] = "]"
        THEN [ok |-> TRUE, v |-> PyList(Append(acc, r.v)), i |-> j + 1]
        ELSE IF text[j] = ","
        THEN JsonElems(text, SkipBlank(text, j + 1), Append(acc, r.v))
        ELSE JsonFail

\* loads(text): one value and nothing after it, else JSONDecodeError
loads(text) ==
    LET r == JsonValue(text, SkipBlank(text, 1))
    IN  IF r.ok /\ SkipBlank(text, r.i) = Len(text) + 1
        THEN [ok |-> TRUE, v |-> r.v]
        ELSE [ok |-> FALSE, v |-> None]

\* --------------------------------------------- models.py: the filter compiler

\* the comma-separated fallback of _parse_array_parameter
CommaSeparated(text, seed) ==
    LET pieces == Split(text, << >>)
        kept == {PyStr(Strip(pieces[i])) : i \in {j \in 1..Len(pieces) : Strip(pieces[j]) # << >>}}
    IN  [err |-> "none", v |-> PyList(SetToList(kept, seed))]

\* BaseEntity._parse_array_parameter: [err, v]
_parse_array_parameter(value, seed) ==
    IF value.t \in {"list", "tuple"} THEN ListOfSet(value.e, seed)
    ELSE IF value.t # "str" THEN [err |-> "none", v |-> PyList(<<value>>)]
    ELSE LET text == Strip(value.s)
             bracketed == text # << >> /\ text[1] = "[" /\ text[Len(text)] = "]"
         IN  IF bracketed /\ loads(text).ok
             THEN IF loads(text).v.t = "list"
                  THEN ListOfSet(loads(text).v.e, seed)
                  ELSE [err |-> "none", v |-> PyList(<<loads(text).v>>)]
             ELSE CommaSeparated(text, seed)

\* A field name or a raw filter key is a sequence of name parts, so that
\* str.endswith and the slices of _get_base_field_name act on its last part:
\* <<"created_at", "_from">> is the key created_at_from.

Suffixes == {"_from", "_to", "_in", "_nin"}

endswith(key, suffix) == key # << >> /\ key[Len(key)] = suffix

\* the entity kinds: the four bases of models.py and a kind that overrides
\* search_field_set with an allow-list
Kinds == {"BaseEntity", "OwnedEntity", "BusinessEntity", "BusinessOwnedEntity",
          "AllowListEntity"}

\* ImmutableBase and the three kinds that mix it in
ImmutableKinds ==
    {"ImmutableBase", "ImmutableOwnedEntity", "ImmutableBusinessEntity",
     "ImmutableBusinessOwnedEntity"}

\* the kinds whose schema is OwnedEntitySchema or BusinessOwnedEntitySchema
OwnedKinds ==
    {"OwnedEntity", "BusinessOwnedEntity", "ImmutableOwnedEntity",
     "ImmutableBusinessOwnedEntity"}

\* the kinds whose schema is BusinessEntitySchema or BusinessOwnedEntitySchema
BusinessKinds ==
    {"BusinessEntity", "BusinessOwnedEntity", "ImmutableBusinessEntity",
     "ImmutableBusinessOwnedEntity"}

\* the fields of CoreEntitySchema and BaseEntitySchema
BaseFields == {<<"uid">>, <<"created_at">>, <<"updated_at">>, <<"is_deleted">>,
               <<"meta_data">>}

\* hasattr(cls, name): the fields the kind's schema declares, and the methods
\* of the class (list_items stands for them)
hasattr(cls, name) ==
    \/ name \in BaseFields
    \/ name = <<"list_items">>
    \/ name = <<"user_id">> /\ cls \in OwnedKinds
    \/ name = <<"business_name">> /\ cls \in BusinessKinds

\* CoreEntitySchema.search_field_set: empty unless a kind overrides it
search_field_set(cls) ==
    IF cls = "AllowListEntity" THEN {<<"uid">>, <<"meta_data">>} ELSE {}

\* CoreEntitySchema.search_exclude_set
search_exclude_set(cls) == {<<"meta_data">>}

\* BaseEntity._get_base_field_name
_get_base_field_name(field) ==
    IF endswith(field, "_from") THEN SubSeq(field, 1, Len(field) - 1)
    ELSE IF endswith(field, "_to") THEN SubSeq(field, 1, Len(field) - 1)
    ELSE IF endswith(field, "_in") THEN SubSeq(field, 1, Len(field) - 1)
    ELSE IF endswith(field, "_nin") THEN SubSeq(field, 1, Len(field) - 1)
    ELSE field

\* BaseEntity._is_valid_range_value: int (bool is an int), str; no float,
\* Decimal, date or datetime is drawn
_is_valid_range_value(value) == value.t \in {"int", "bool", "str"}

\* one condition of the predicate: {f: v} is op "eq", {f: {"$gte": v}} is
\* op "$gte"
Cond(f, op, v) == [f |-> f, op |-> op, v |-> v]

\* get_queryset lines 104-116: the soft-delete condition, then the owner,
\* tenant and uid conditions
ScopeQuery(cls, user_id, business_name, is_deleted, uid) ==
    <<Cond(<<"is_deleted">>, "eq", is_deleted)>>
        \o (IF hasattr(cls, <<"user_id">>) /\ Truthy(user_id)
            THEN <<Cond(<<"user_id">>, "eq", user_id)>> ELSE << >>)
        \o (IF hasattr(cls, <<"business_name">>)
            THEN <<Cond(<<"business_name">>, "eq", business_name)>> ELSE << >>)
        \o (IF Truthy(uid) THEN <<Cond(<<"uid">>, "eq", uid)>> ELSE << >>)

SkippedWithoutExcludeSet(cls, key, value) ==
    LET base_field == _get_base_field_name(key)
    IN  \/ value = None
        \/ search_field_set(cls) # {} /\ base_field \notin search_field_set(cls)
        \/ ~hasattr(cls, base_field)

\* get_queryset lines 120-132: the entry is skipped
Skipped(cls, key, value) ==
    LET base_field == _get_base_field_name(key)
    IN  \/ value = None
        \/ search_field_set(cls) # {} /\ base_field \notin search_field_set(cls)
        \/ search_exclude_set(cls) # {} /\ base_field \in search_exclude_set(cls)
        \/ ~hasattr(cls, base_field)

\* get_queryset lines 119-146, one turn of the loop over kwargs: [err, q]
\* with q the conditions the entry appends
FilterEntry(cls, key, value, seed) ==
    LET base_field == _get_base_field_name(key)
    IN  IF Skipped(cls, key, value) THEN [err |-> "none", q |-> << >>]
        ELSE IF endswith(key, "_from") \/ endswith(key, "_to")
        THEN IF _is_valid_range_value(value)
             THEN IF endswith(key, "_from")
                  THEN [err |-> "none", q |-> <<Cond(base_field, "$gte", value)>>]
                  ELSE [err |-> "none", q |-> <<Cond(base_field, "$lte", value)>>]
             ELSE [err |-> "none", q |-> << >>]
        ELSE IF endswith(key, "_in") \/ endswith(key, "_nin")
        THEN LET value_list == _parse_array_parameter(value, seed)
                 operator == IF endswith(key, "_in") THEN "$in" ELSE "$nin"
             IN  IF value_list.err # "none"
                 THEN [err |-> value_list.err, q |-> << >>]
                 ELSE [err |-> "none", q |-> <<Cond(base_field, operator, value_list.v)>>]
        ELSE [err |-> "none", q |-> <<Cond(key, "eq", value)>>]

RECURSIVE FilterLoop(_, _, _, _)
\* the loop over kwargs.items(), in the order of the map; an exception ends it
FilterLoop(cls, kwargs, seed, base_query) ==
    IF kwargs = << >> THEN [err |-> "none", q |-> base_query]
    ELSE LET r == FilterEntry(cls, kwargs[1].k, kwargs[1].v, seed)
         IN  IF r.err # "none" THEN [err |-> r.err, q |-> << >>]
             ELSE FilterLoop(cls, Tail(kwargs), seed, base_query \o r.q)

\* BaseEntity.get_queryset: [err, q]
get_queryset(cls, user_id, business_name, is_deleted, uid, kwargs, seed) ==
    FilterLoop(cls, kwargs, seed,
               ScopeQuery(cls, user_id, business_name, is_deleted, uid))

\* kwargs.get(key), None when the map has no such key
KwGet(kwargs, key) ==
    IF \E i \in 1..Len(kwargs) : kwargs[i].k = key
    THEN kwargs[CHOOSE i \in 1..Len(kwargs) : kwargs[i].k = key].v
    ELSE None

\* BaseEntity.get_query: created_at_from and created_at_to are parameters of
\* its own, handed on before the other kwargs
get_query(cls, user_id, business_name, is_deleted, uid, kwargs, seed) ==
    LET named == {<<"created_at", "_from">>, <<"created_at", "_to">>}
        rest == SelectSeq(kwargs, LAMBDA kv : kv.k \notin named)
    IN  get_queryset(cls, user_id, business_name, is_deleted, uid,
                     << [k |-> <<"created_at", "_from">>,
                         v |-> KwGet(kwargs, <<"created_at", "_from">>)],
                        [k |-> <<"created_at", "_to">>,
                         v |-> KwGet(kwargs, <<"created_at", "_to">>)] >> \o rest,
                     seed)

\* get_item up to its store lookup: OwnedEntity.get_item,
\* BusinessEntity.get_item and BusinessOwnedEntity.get_item check their scope
\* argument, then BaseEntity.get_item builds the query
get_item_query(cls, uid, user_id, business_name, is_deleted, kwargs, seed) ==
    IF /\ cls \in {"OwnedEntity", "ImmutableOwnedEntity"}
       /\ user_id = None
       /\ KwGet(kwargs, <<"ignore_user_id">>) # PyBool(TRUE)
    THEN [err |-> "ValueError", q |-> << >>]
    ELSE IF cls \in BusinessKinds /\ business_name = None
    THEN [err |-> "ValueError", q |-> << >>]
    ELSE get_query(cls, user_id, business_name, is_deleted, uid, kwargs, seed)

\* the query a call of the model compiles: get_queryset itself, list_items and
\* total_count (by get_query, no uid), get_item
Compile(req, seed) ==
    CASE req.op = "get_queryset" ->
            get_queryset(req.cls, req.user_id, req.business_name, req.is_deleted,
                         req.uid, req.kwargs, seed)
      [] req.op \in {"list_items", "total_count"} ->
            get_query(req.cls, req.user_id, req.business_name, req.is_deleted,
                      None, req.kwargs, seed)
      [] req.op = "get_item" ->
            get_item_query(req.cls, req.uid, req.user_id, req.business_name,
                           req.is_deleted, req.kwargs, seed)

\* ------------------------------------------------------- the calls compiled

Unset == [err |-> "unset", q |-> << >>]

NoRequest ==
    [op |-> "none", cls |-> "BaseEntity", user_id |-> None, business_name |-> None,
     is_deleted |-> PyBool(FALSE), uid |-> None, kwargs |-> << >>]

UserIds == {None, PyUUID("user1")}
BusinessNames == {None, PyStr(<<"a">>)}
Uids == {None, PyUUID("uid1")}
Flags == {PyBool(FALSE), PyBool(TRUE)}
Ops == {"get_queryset", "list_items", "total_count", "get_item"}

\* the keys of the raw filter maps drawn
FilterKeys ==
    {<<"updated_at">>, <<"created_at", "_from">>, <<"uid", "_in">>,
     <<"meta_data">>, <<"meta_data", "_nin">>, <<"unknown", "_to">>}

\* the values of the raw filter maps drawn
FilterValues ==
    {None, PyInt(<<"1">>), PyDict,
     PyList(<<PyStr(<<"a">>), PyInt(<<"1">>)>>),
     PyList(<<PyList(<< >>)>>)}

RECURSIVE KwargsOfLen(_)
\* the maps of n entries, keys distinct, in every order
KwargsOfLen(n) ==
    IF n = 0 THEN {<< >>}
    ELSE {Append(m, [k |-> key, v |-> value]) :
            m \in KwargsOfLen(n - 1),
            key \in FilterKeys, value \in FilterValues}

DistinctKeys(m) == \A i, j \in 1..Len(m) : i # j => m[i].k # m[j].k

FilterMaps ==
    {m \in UNION {KwargsOfLen(n) : n \in 0..MaxFilters} : DistinctKeys(m)}

RECURSIVE SeqsUpTo(_, _)
\* the sequences over S of length n at most
SeqsUpTo(S, n) ==
    IF n = 0 THEN {<< >>}
    ELSE LET P == SeqsUpTo(S, n - 1)
         IN  P \cup {Append(p, x) : p \in P, x \in S}

\* the elements of the lists and tuples drawn
ElemValues == {PyInt(<<"1">>), PyStr(<<"a">>), PyDict, PyList(<< >>)}

\* the raw values drawn for an _in or _nin key
ArrayValues ==
    {PyStr(text) : text \in SeqsUpTo(Lexemes, MaxStrLen)}
        \cup {PyList(e) : e \in SeqsUpTo(ElemValues, MaxListLen)}
        \cup {PyTuple(e) : e \in SeqsUpTo(ElemValues, MaxListLen)}

\* calls that vary the kind and the scope arguments
ScopeRequests ==
    [op : Ops, cls : Kinds, user_id : UserIds, business_name : BusinessNames,
     is_deleted : Flags, uid : Uids,
     kwargs : {<< >>,
               <<[k |-> <<"ignore_user_id">>, v |-> PyBool(TRUE)]>>,
               <<[k |-> <<"updated_at">>, v |-> PyInt(<<"1">>)]>>}]

\* calls that vary the raw filter map
FilterRequests ==
    [op : {"get_queryset"},
     cls : {"BaseEntity", "BusinessOwnedEntity", "AllowListEntity"}, user_id : {None},
     business_name : {PyStr(<<"a">>)}, is_deleted : {PyBool(FALSE)}, uid : {None},
     kwargs : FilterMaps]

\* calls that vary the raw value of one _in or _nin key
ArrayRequests ==
    [op : {"get_queryset"}, cls : {"BaseEntity"}, user_id : {None},
     business_name : {None}, is_deleted : {PyBool(FALSE)}, uid : {None},
     kwargs : {<<[k |-> key, v |-> value]>> :
                 key \in {<<"uid", "_in">>, <<"uid", "_nin">>},
                 value \in ArrayValues}]

QueryIdle ==
    /\ hashseed = 0
    /\ request = NoRequest
    /\ response = Unset
    /\ previous = Unset

Init == RegInit /\ QueryIdle /\ StoreIdle

Next ==
    \/ \E t \in Tasks, uid \in Keys : wait_condition(t, uid)
    \/ \E uid \in Keys : release_condition(uid)
    \/ \E t \in Tasks : wait_condition_resume(t)

Spec == Init /\ [][Next]_vars

\* the event loop runs every task whose future is resolved
FairSpec == Spec /\ \A t \in Tasks : WF_vars(wait_condition_resume(t))

\* a process starts with some hash seed and is handed some call
QueryInit ==
    /\ RegInit
    /\ StoreIdle
    /\ hashseed \in {0, 1}
    /\ request \in ScopeRequests \cup FilterRequests
    /\ response = Unset
    /\ previous = Unset

\* the call is made
compile ==
    /\ response = Unset
    /\ response' = Compile(request, hashseed)
    /\ UNCHANGED <<hashseed, request, previous>>
    /\ UNCHANGED <<regvars, svars>>

\* the same call is made once more in the same process
compile_again ==
    /\ response # Unset
    /\ previous = Unset
    /\ previous' = response
    /\ response' = Compile(request, hashseed)
    /\ UNCHANGED <<hashseed, request>>
    /\ UNCHANGED <<regvars, svars>>

QueryNext == compile \/ compile_again

QuerySpec == QueryInit /\ [][QueryNext]_vars

\* a process is handed a call with some raw value for an _in or _nin key, or
\* with some raw filter map
ArrayInit ==
    /\ RegInit
    /\ StoreIdle
    /\ hashseed \in {0, 1}
    /\ request \in ArrayRequests \cup FilterRequests
    /\ response = Unset
    /\ previous = Unset

ArraySpec == ArrayInit /\ [][QueryNext]_vars

\* ---------------------------------------------------- models.py: pagination

\* Settings.page_max_limit
page_max_limit == 100

\* the builtins max and min of two ints
max(a, b) == IF a >= b THEN a ELSE b
min(a, b) == IF a <= b THEN a ELSE b

\* x or default, for an int x: 0 is falsy
or(x, default) == IF x = 0 THEN default ELSE x

\* BaseEntity.adjust_pagination for int arguments: <<offset, limit>>
adjust_pagination(offset, limit) ==
    <<max(or(offset, 0), 0), max(1, min(or(limit, 10), page_max_limit))>>

\* AbstractBaseRouter._list_items: the router clamps limit, then
\* list_total_combined hands offset and limit to BaseEntity.list_items, whose
\* first line is adjust_pagination; the window list_items reads
_list_items(offset, limit) ==
    adjust_pagination(offset, max(1, min(limit, page_max_limit)))

\* the offsets and limits drawn: around 0, around the default 10, around
\* page_max_limit and far above it
Offsets == (-5..5) \cup {10000}
Limits == (-2..12) \cup ((page_max_limit - 2)..(page_max_limit + 2)) \cup {10000}

PageRequests ==
    [op : {"list_items", "_list_items"}, offset : Offsets, limit : Limits]

\* a caller asks for some window
PageInit ==
    /\ RegInit
    /\ StoreIdle
    /\ hashseed = 0
    /\ request \in PageRequests
    /\ response = Unset
    /\ previous = Unset

\* BaseEntity.list_items line 242, called directly
list_items_window ==
    /\ response = Unset
    /\ request.op = "list_items"
    /\ response' = [err |-> "none", q |-> << >>,
                    window |-> adjust_pagination(request.offset, request.limit)]
    /\ UNCHANGED <<hashseed, request, previous>>
    /\ UNCHANGED <<regvars, svars>>

\* BaseEntity.list_items line 242, called by the router's _list_items
_list_items_window ==
    /\ response = Unset
    /\ request.op = "_list_items"
    /\ response' = [err |-> "none", q |-> << >>,
                    window |-> _list_items(request.offset, request.limit)]
    /\ UNCHANGED <<hashseed, request, previous>>
    /\ UNCHANGED <<regvars, svars>>

PageNext == list_items_window \/ _list_items_window

PageSpec == PageInit /\ [][PageNext]_vars

\* ------------------------------------------------ models.py: entity lifecycle

\* the _id values the collection hands out, one to each document inserted
DocIds == {1, 2}
\* the last reading of the clock; a later read gives the same time again
MaxClock == 1

\* a datetime, as the clock reading it stands for
PyDatetime(n) == [t |-> "datetime", s |-> << >>, e |-> << >>, at |-> n]

\* the kinds with a collection: those of the compiler and the immutable ones
StoreKinds == Kinds \cup ImmutableKinds

\* the fields the kind's schema declares
Fields(cls) ==
    {f \in BaseFields \cup {<<"user_id">>, <<"business_name">>} : hasattr(cls, f)}

\* the fields declared without a default: user_id and business_name
RequiredFields(cls) == Fields(cls) \ BaseFields

update_exclude_none(cls) == {}

\* CoreEntitySchema.update_exclude_set and its overrides
update_exclude_set(cls) ==
    {<<"uid">>, <<"created_at">>, <<"updated_at">>}
        \cup (IF cls \in OwnedKinds THEN {<<"user_id">>} ELSE {})
        \cup (IF cls \in BusinessKinds THEN {<<"business_name">>} ELSE {})

\* CoreEntitySchema.update_field_set: empty unless a kind overrides it
update_field_set(cls) ==
    IF cls = "AllowListEntity" THEN {<<"uid">>, <<"meta_data">>} ELSE {}

\* key in data
KwHas(data, key) == \E i \in 1..Len(data) : data[i].k = key

\* uuid.uuid4(): an identifier no document of the collection has
uuid4(docs) ==
    PyUUID(ToString(
        CHOOSE n \in 1..(Len(docs) + 1) :
            /\ \A i \in 1..Len(docs) : docs[i][<<"uid">>] # PyUUID(ToString(n))
            /\ \A m \in 1..(n - 1) :
                 \E i \in 1..Len(docs) : docs[i][<<"uid">>] = PyUUID(ToString(m))))

\* the default of a field of CoreEntitySchema or BaseEntitySchema
Default(f, docs, t) ==
    CASE f = <<"uid">> -> uuid4(docs)
      [] f \in {<<"created_at">>, <<"updated_at">>} -> PyDatetime(t)
      [] f = <<"is_deleted">> -> PyBool(FALSE)
      [] OTHER -> None

\* cls(**data): a field takes the value the payload has for its name, else
\* its default; a field without a default and without a value is a
\* ValidationError; a key that names no field is ignored
Construct(cls, data, docs, t) ==
    IF \E f \in RequiredFields(cls) : ~KwHas(data, f)
    THEN [err |-> "ValidationError", item |-> << >>]
    ELSE [err |-> "none",
          item |-> [f \in Fields(cls) |->
                      IF KwHas(data, f) THEN KwGet(data, f) ELSE Default(f, docs, t)]]

\* BaseEntity.pre_save: self.updated_at = datetime.now(); an instance of a
\* kind whose model_config is frozen refuses the assignment
pre_save(cls, item, t) ==
    IF cls \in ImmutableKinds
    THEN [err |-> "ValidationError", item |-> item]
    ELSE [err |-> "none", item |-> [item EXCEPT ![<<"updated_at">>] = PyDatetime(t)]]

\* item.save() for the document id (Len(docs) + 1 for one not yet stored):
\* pre_save runs before the write, and the unique index on uid refuses a
\* second document with the same uid
save(cls, docs, id, item, t) ==
    LET saved == pre_save(cls, item, t)
    IN  IF saved.err # "none"
        THEN [err |-> saved.err, item |-> item, docs |-> docs]
        ELSE IF \E j \in 1..Len(docs) :
                    j # id /\ docs[j][<<"uid">>] = saved.item[<<"uid">>]
        THEN [err |-> "DuplicateKeyError", item |-> saved.item, docs |-> docs]
        ELSE [err |-> "none", item |-> saved.item,
              docs |-> IF id <= Len(docs)
                       THEN [docs EXCEPT ![id] = saved.item]
                       ELSE Append(docs, saved.item)]

\* BaseEntity.create_item: [err, item, docs]
create_item(cls, data, docs, t0, t) ==
    LET built == Construct(cls, data, docs, t0)
    IN  IF built.err # "none"
        THEN [err |-> built.err, item |-> << >>, docs |-> docs]
        ELSE save(cls, docs, Len(docs) + 1, built.item, t)

\* setattr(item, key, value) for a key hasattr finds: a field is assigned, any
\* other attribute of the class is not a field and the model refuses it
setattr(cls, item, key, value) ==
    IF key \in Fields(cls)
    THEN [err |-> "none", item |-> [item EXCEPT ![key] = value]]
    ELSE [err |-> "ValueError", item |-> item]

RECURSIVE UpdateLoop(_, _, _)
\* update_item lines 321-328, the loop over data.items(): [err, item]
UpdateLoop(cls, item, data) ==
    IF data = << >> THEN [err |-> "none", item |-> item]
    ELSE LET key == data[1].k
             value == data[1].v
         IN  IF update_field_set(cls) # {} /\ key \notin update_field_set(cls)
             THEN UpdateLoop(cls, item, Tail(data))
             ELSE IF update_exclude_set(cls) # {} /\ key \in update_exclude_set(cls)
             THEN UpdateLoop(cls, item, Tail(data))
             ELSE IF hasattr(cls, key)
             THEN LET r == setattr(cls, item, key, value)
                  IN  IF r.err # "none" THEN r
                      ELSE UpdateLoop(cls, r.item, Tail(data))
             ELSE UpdateLoop(cls, item, Tail(data))

\* BaseEntity.update_item and ImmutableBase.update_item: [err, item, docs]
update_item(cls, docs, id, item, data, t) ==
    IF cls \in ImmutableKinds
    THEN [err |-> "ValueError", item |-> item, docs |-> docs]
    ELSE LET r == UpdateLoop(cls, item, data)
         IN  IF r.err # "none"
             THEN [err |-> r.err, item |-> r.item, docs |-> docs]
             ELSE save(cls, docs, id, r.item, t)

delete_item_keeps_flag(cls, docs, id, item, t) ==
    IF cls \in ImmutableKinds
    THEN [err |-> "ValueError", item |-> item, docs |-> docs]
    ELSE save(cls, docs, id, item, t)

\* BaseEntity.delete_item and ImmutableBase.delete_item: [err, item, docs]
delete_item(cls, docs, id, item, t) ==
    IF cls \in ImmutableKinds
    THEN [err |-> "ValueError", item |-> item, docs |-> docs]
    ELSE save(cls, docs, id, [item EXCEPT ![<<"is_deleted">>] = PyBool(TRUE)], t)

\* a document satisfies one condition of a predicate
MatchCond(doc, c) ==
    IF c.f \notin DOMAIN doc THEN c.op = "$nin" \/ (c.op = "eq" /\ c.v = None)
    ELSE CASE c.op = "eq" -> doc[c.f] = c.v
           [] c.op = "$in" -> \E i \in 1..Len(c.v.e) : c.v.e[i] = doc[c.f]
           [] c.op = "$nin" -> \A i \in 1..Len(c.v.e) : c.v.e[i] # doc[c.f]
           [] c.op = "$gte" ->
                doc[c.f].t = "datetime" /\ c.v.t = "datetime" /\ doc[c.f].at >= c.v.at
           [] c.op = "$lte" ->
                doc[c.f].t = "datetime" /\ c.v.t = "datetime" /\ doc[c.f].at <= c.v.at

\* cls.find({"$and": base_query}) ... to_list(): the documents that satisfy
\* every condition, in the order of the collection
find(docs, q) ==
    SelectSeq(docs, LAMBDA d : \A i \in 1..Len(q) : MatchCond(d, q[i]))

\* get_item lines 212-216: what the call gives for the list to_list() gave;
\* ret is the sequence of the item returned, empty for None
one_or_none(items) ==
    IF items = << >> THEN [err |-> "none", ret |-> << >>]
    ELSE IF Len(items) > 1 THEN [err |-> "ValueError", ret |-> << >>]
    ELSE [err |-> "none", ret |-> <<items[1]>>]

get_item_first(cls, uid, user_id, business_name, is_deleted, kwargs, seed, docs) ==
    CHOOSE r \in
        {IF query.err # "none" THEN [err |-> query.err, ret |-> << >>]
         ELSE IF find(docs, query.q) = << >> THEN [err |-> "none", ret |-> << >>]
         ELSE [err |-> "none", ret |-> <<find(docs, query.q)[1]>>] :
            query \in {get_item_query(cls, uid, user_id, business_name, is_deleted,
                                      kwargs, seed)}} : TRUE

\* get_item of the kind: [err, ret]; query is the predicate the kind's
\* get_item compiled, or the error of its scope check
get_item(cls, uid, user_id, business_name, is_deleted, kwargs, seed, docs) ==
    CHOOSE r \in
        {IF query.err # "none" THEN [err |-> query.err, ret |-> << >>]
         ELSE one_or_none(find(docs, query.q)) :
            query \in {get_item_query(cls, uid, user_id, business_name, is_deleted,
                                      kwargs, seed)}} : TRUE

\* sort("-created_at"): the orders of the documents found in which created_at
\* never grows; documents with one created_at come in any order
sort(items) ==
    {[i \in 1..Len(items) |-> items[p[i]]] : p \in
        {p \in Permutations(1..Len(items)) :
            \A i, j \in 1..Len(items) :
                i < j => items[p[i]][<<"created_at">>].at
                            >= items[p[j]][<<"created_at">>].at}}

\* skip(offset).limit(limit)
skip_limit(items, offset, limit) ==
    SubSeq(items, offset + 1, min(Len(items), offset + limit))

\* BaseEntity.list_items: the lists it may return, [err, ret]; query is the
\* predicate get_query compiled
list_items(cls, user_id, business_name, offset, limit, is_deleted, kwargs, seed, docs) ==
    UNION
        {IF query.err # "none" THEN {[err |-> query.err, ret |-> << >>]}
         ELSE {[err |-> "none",
                ret |-> skip_limit(items, adjust_pagination(offset, limit)[1],
                                   adjust_pagination(offset, limit)[2])] :
                 items \in sort(find(docs, query.q))} :
            query \in {get_query(cls, user_id, business_name, is_deleted, None,
                                 kwargs, seed)}}

\* ------------------------------------------------------ the lifecycle calls

\* a time no reading of the clock gives: a caller's timestamp in the future
Future == PyDatetime(MaxClock + 1)

\* the entries a caller may put in a payload: the server-controlled fields,
\* the scope fields with values other than the caller's own scope, the one
\* free field, a key that names no attribute and a key that names a method
PayloadEntries ==
    <<[k |-> <<"uid">>, v |-> PyUUID("caller")],
      [k |-> <<"created_at">>, v |-> Future],
      [k |-> <<"updated_at">>, v |-> Future],
      [k |-> <<"is_deleted">>, v |-> PyBool(TRUE)],
      [k |-> <<"meta_data">>, v |-> PyDict],
      [k |-> <<"user_id">>, v |-> PyUUID("user2")],
      [k |-> <<"business_name">>, v |-> PyStr(<<"b">>)],
      [k |-> <<"unknown">>, v |-> PyInt(<<"1">>)],
      [k |-> <<"list_items">>, v |-> PyInt(<<"1">>)]>>

\* the payloads drawn: none of the entries, one of them, the four
\* server-controlled ones, the fields without the method, all of them
Payloads ==
    {<< >>, SubSeq(PayloadEntries, 1, 4), SubSeq(PayloadEntries, 1, 8), PayloadEntries}
        \cup {<<PayloadEntries[i]>> : i \in 1..Len(PayloadEntries)}

\* the scope fields of the kind as the router fills them in for its caller
ScopeEntries(cls) ==
    (IF cls \in OwnedKinds
     THEN <<[k |-> <<"user_id">>, v |-> PyUUID("user1")]>> ELSE << >>)
        \o (IF cls \in BusinessKinds
            THEN <<[k |-> <<"business_name">>, v |-> PyStr(<<"a">>)]>> ELSE << >>)

\* data with the scope entries for the scope fields it does not name
WithScope(cls, data) ==
    SelectSeq(ScopeEntries(cls), LAMBDA kv : ~KwHas(data, kv.k)) \o data

\* the payloads a caller who holds payload sends to create_item: the payload
\* or an empty one, as it is or with the scope entries
CreatePayloads(cls, payload) ==
    {payload, << >>, WithScope(cls, payload), WithScope(cls, << >>)}

\* the scope arguments drawn for a lookup
Scopes(cls) ==
    [user_id : IF cls \in OwnedKinds THEN {None, PyUUID("user1")} ELSE {None},
     business_name : IF cls \in BusinessKinds THEN {None, PyStr(<<"a">>)} ELSE {None}]

\* the uid arguments drawn for a lookup
LookupUids == {None, PyUUID("1"), PyUUID("2")}

\* the clock when it is read next
Ticks == {t \in now..(now + 1) : t <= MaxClock}

\* the entities a caller may hand to update_item and delete_item: a stored
\* document as a lookup returned it, or an instance just constructed and not
\* stored (for the kinds that refuse the call before they look at it)
Items(cls) ==
    {[id |-> i, item |-> store[i]] : i \in 1..Len(store)}
        \cup (IF cls \in ImmutableKinds
              THEN {[id |-> Len(store) + 1,
                     item |-> Construct(cls, ScopeEntries(cls), store, now).item]}
              ELSE {})

\* the call record of a lifecycle call on the kind, of a caller who holds
\* payload
StoreRequest(cls, payload) ==
    [op |-> "none", cls |-> cls, user_id |-> None, business_name |-> None,
     is_deleted |-> PyBool(FALSE), uid |-> None, kwargs |-> << >>,
     payload |-> payload, data |-> << >>, id |-> 0, offset |-> 0, limit |-> 10]

\* what a lifecycle call gave: the exception, and the entities returned
Outcome(err, ret) == [err |-> err, q |-> << >>, ret |-> ret]

\* a process serves the collection of one kind, empty at first, to a caller
\* who holds one payload
StoreInit ==
    /\ RegInit
    /\ StoreIdle
    /\ hashseed = 0
    /\ request \in {StoreRequest(cls, payload) : cls \in StoreKinds, payload \in Payloads}
    /\ response = Unset
    /\ previous = Unset

call_create_item ==
    /\ Len(store) < Cardinality(DocIds)
    /\ \E data \in CreatePayloads(request.cls, request.payload), t \in Ticks :
         LET r == create_item(request.cls, data, store, now, t)
         IN  /\ store' = r.docs
             /\ now' = t
             /\ request' = [StoreRequest(request.cls, request.payload) EXCEPT
                               !.op = "create_item", !.data = data]
             /\ response' = Outcome(r.err, IF r.err = "none" THEN <<r.item>> ELSE << >>)
    /\ UNCHANGED <<hashseed, previous>>
    /\ UNCHANGED regvars

call_update_item ==
    /\ \E it \in Items(request.cls), data \in {request.payload, << >>}, t \in Ticks :
         LET r == update_item(request.cls, store, it.id, it.item, data, t)
         IN  /\ store' = r.docs
             /\ now' = t
             /\ request' = [StoreRequest(request.cls, request.payload) EXCEPT
                               !.op = "update_item", !.data = data, !.id = it.id]
             /\ response' = Outcome(r.err, IF r.err = "none" THEN <<r.item>> ELSE << >>)
    /\ UNCHANGED <<hashseed, previous>>
    /\ UNCHANGED regvars

call_delete_item ==
    /\ \E it \in Items(request.cls), t \in Ticks :
         LET r == delete_item(request.cls, store, it.id, it.item, t)
         IN  /\ store' = r.docs
             /\ now' = t
             /\ request' = [StoreRequest(request.cls, request.payload) EXCEPT
                               !.op = "delete_item", !.id = it.id]
             /\ response' = Outcome(r.err, IF r.err = "none" THEN <<r.item>> ELSE << >>)
    /\ UNCHANGED <<hashseed, previous>>
    /\ UNCHANGED regvars

StoreNext ==
    \/ call_create_item
    \/ call_update_item
    \/ call_delete_item

StoreSpec == StoreInit /\ [][StoreNext]_vars

call_get_item ==
    /\ \E uid \in LookupUids, scope \in Scopes(request.cls), is_deleted \in Flags :
         LET r == get_item(request.cls, uid, scope.user_id, scope.business_name,
                           is_deleted, << >>, hashseed, store)
         IN  /\ request' = [StoreRequest(request.cls, request.payload) EXCEPT
                               !.op = "get_item", !.uid = uid,
                               !.user_id = scope.user_id,
                               !.business_name = scope.business_name,
                               !.is_deleted = is_deleted]
             /\ response' = Outcome(r.err, r.ret)
    /\ UNCHANGED <<hashseed, previous, store, now>>
    /\ UNCHANGED regvars

call_list_items ==
    /\ \E scope \in Scopes(request.cls), is_deleted \in Flags,
          offset \in {0, 1}, limit \in {1, 10} :
         \E r \in list_items(request.cls, scope.user_id, scope.business_name,
                             offset, limit, is_deleted, << >>, hashseed, store) :
             /\ request' = [StoreRequest(request.cls, request.payload) EXCEPT
                               !.op = "list_items",
                               !.user_id = scope.user_id,
                               !.business_name = scope.business_name,
                               !.is_deleted = is_deleted,
                               !.offset = offset, !.limit = limit]
             /\ response' = Outcome(r.err, r.ret)
    /\ UNCHANGED <<hashseed, previous, store, now>>
    /\ UNCHANGED regvars

\* a process serves the collection of one kind to callers who create with
\* an empty payload, delete, and look documents up
LookupInit ==
    /\ RegInit
    /\ StoreIdle
    /\ hashseed = 0
    /\ request \in {StoreRequest(cls, << >>) : cls \in StoreKinds \ ImmutableKinds}
    /\ response = Unset
    /\ previous = Unset

LookupNext ==
    \/ call_create_item
    \/ call_delete_item
    \/ call_get_item
    \/ call_list_items

LookupSpec == LookupInit /\ [][LookupNext]_vars

\* ------------------------------------------------------- registry properties

\* the tasks blocked in wait_condition(uid) whose future is not resolved
Blocked(uid) ==
    {t \in DOMAIN frames : frames[t].uid = uid /\ frames[t].pc = "waiting"}

Notified(t) == t \in DOMAIN frames /\ frames[t].pc = "notified"

\* C1: when several wait_condition(uid) calls are blocked on one uid and a
\* release_condition(uid) runs, every one of them is woken; and when a woken
\* waiter has returned the table holds no entry for uid.
C1_BroadcastWakesAllBlocked ==
    [][\A uid \in Keys :
        /\ (last'.op = "release" /\ last'.uid = uid /\ Cardinality(Blocked(uid)) >= 2)
              => \A t \in Blocked(uid) : t \in DOMAIN frames' /\ frames'[t].pc = "notified"
        /\ (last'.op = "resume" /\ last'.uid = uid) => uid \notin DOMAIN _conditions'
      ]_vars

\* C2: a wait_condition(uid) call that is registered and blocked when a
\* release_condition(uid) call starts is woken by that release.
C2_BlockedWaiterIsWoken ==
    [][\A t \in Tasks :
        (/\ t \in DOMAIN frames
         /\ frames[t].pc = "waiting"
         /\ last'.op = "release"
         /\ last'.uid = frames[t].uid)
            => Notified(t)'
      ]_vars

\* C3: the registry never deadlocks: no lock is held while a task is
\* suspended, so every release_condition call runs to completion, and every
\* waiter a release has notified takes the lock again and returns (a task
\* leaves the notified state only by returning, so "no task stays notified
\* for ever" says that each notified waiter returns).
C3_NotifiedWaiterReturns ==
    /\ [](\A uid \in DOMAIN _conditions : _conditions[uid] \notin locked)
    /\ [](\A t \in DOMAIN frames : frames[t].condition \notin locked)
    /\ \A t \in Tasks : []<>(~Notified(t))

\* a waiter that a release notified has returned while another notified
\* waiter of the same uid has yet to run
C3_Witness ==
    /\ last.op = "resume"
    /\ \E t \in DOMAIN frames : frames[t].uid = last.uid /\ frames[t].pc = "notified"

\* the task whose wait_condition call starts in this step
Starts(t) == t \notin DOMAIN frames /\ t \in DOMAIN frames'

\* C4: a wait_condition(uid) that starts after a release_condition(uid) and
\* its cleanup have completed (the table has no entry for uid) does not
\* return: it creates a new entry and is blocked on it; and a blocked waiter
\* leaves the blocked state only by a later release_condition of its uid.
C4_LateWaiterBlocks ==
    [][/\ \A uid \in Keys :
            (last'.op = "wait" /\ last'.uid = uid /\ uid \notin DOMAIN _conditions)
                => /\ uid \in DOMAIN _conditions'
                   /\ _conditions'[uid] \notin LiveConds
                   /\ \E t \in Tasks :
                        /\ Starts(t)
                        /\ frames'[t] = [uid |-> uid, condition |-> _conditions'[uid],
                                         pc |-> "waiting"]
       /\ \A t \in DOMAIN frames :
            (frames[t].pc = "waiting" /\ ~(t \in DOMAIN frames' /\ frames'[t].pc = "waiting"))
                => last'.op = "release" /\ last'.uid = frames[t].uid
      ]_vars

\* a wait_condition(uid) started after a release_condition(uid) completed (a
\* waiter that release notified is still to be resumed), found no entry, and
\* is the one call blocked on the entry it created
C4_Witness ==
    /\ last.op = "wait"
    /\ ~last.found
    /\ \E t \in DOMAIN frames : frames[t].uid = last.uid /\ frames[t].pc = "notified"
    /\ last.uid \in DOMAIN _conditions
    /\ Cardinality(Blocked(last.uid)) = 1
    /\ \A t \in Blocked(last.uid) : frames[t].condition = _conditions[last.uid]

\* C5: release_condition(uid) with no entry for uid in the table wakes
\* nobody, creates no entry and leaves the whole table unchanged.
C5_ReleaseWithoutEntryIsNoOp ==
    [][\A uid \in Keys :
        (last'.op = "release" /\ last'.uid = uid /\ uid \notin DOMAIN _conditions)
            => _conditions' = _conditions /\ frames' = frames /\ locked' = locked
      ]_vars

\* a release_condition(uid) ran and found no entry, while another uid has an
\* entry and a blocked waiter
C5_Witness ==
    /\ last.op = "release"
    /\ ~last.found
    /\ last.uid \notin DOMAIN _conditions
    /\ \E k \in DOMAIN _conditions : Blocked(k) # {}

\* C6: the table holds an entry only for a uid with an outstanding waiter:
\* an entry is the condition some wait_condition(uid) call is still blocked
\* on, so a uid all of whose waiters have returned has no entry.
C6_NoLeak ==
    \A uid \in DOMAIN _conditions :
        \E t \in Blocked(uid) : frames[t].condition = _conditions[uid]

\* the last woken waiter has returned: no call is pending and the table is
\* empty
C6_Witness ==
    /\ last.op = "resume"
    /\ frames = << >>
    /\ _conditions = << >>

\* C7: a step of wait_condition, release_condition or cleanup_condition on
\* one uid leaves the entry of every other uid and every call on another uid
\* as they were.
C7_KeyIsolation ==
    [][\A k \in Keys :
        k # last'.uid =>
            /\ (k \in DOMAIN _conditions') = (k \in DOMAIN _conditions)
            /\ k \in DOMAIN _conditions => _conditions'[k] = _conditions[k]
            /\ \A t \in DOMAIN frames :
                 frames[t].uid = k => t \in DOMAIN frames' /\ frames'[t] = frames[t]
            /\ \A t \in DOMAIN frames' :
                 frames'[t].uid = k => t \in DOMAIN frames
            /\ \A j \in DOMAIN _conditions' :
                 j # k /\ k \in DOMAIN _conditions' => _conditions'[j] # _conditions'[k]
      ]_vars

\* a release of one uid woke its waiter while another uid keeps its entry and
\* its blocked waiter
C7_Witness ==
    /\ last.op = "release"
    /\ last.found
    /\ \E t \in DOMAIN frames : frames[t].uid = last.uid /\ frames[t].pc = "notified"
    /\ \E k \in DOMAIN _conditions : k # last.uid /\ Blocked(k) # {}

\* C18: whenever a task is blocked inside wait_condition(uid) and its future
\* is not resolved, the table maps uid to the very condition the task waits
\* on; so the cleanup_condition(uid) of a waiter woken from an earlier
\* generation never removes the entry a newer wait_condition(uid) created.
C18_BlockedWaiterHoldsEntry ==
    \A t \in DOMAIN frames :
        frames[t].pc = "waiting" =>
            /\ frames[t].uid \in DOMAIN _conditions
            /\ _conditions[frames[t].uid] = frames[t].condition

\* ------------------------------------------------------- compiler properties

Done == response # Unset

TenantScoped(cls) == cls \in {"BusinessEntity", "BusinessOwnedEntity"}
OwnerScoped(cls) == cls \in {"OwnedEntity", "BusinessOwnedEntity"}

\* C8: for a tenant-scoped kind, compiling without a tenant name fails with
\* a validation error, and compiling with one gives a predicate whose first
\* condition is the soft-delete condition and whose second is the tenant
\* equality.
C8_TenantScopeMandatoryAndSecond ==
    (Done /\ TenantScoped(request.cls)) =>
        /\ request.business_name = None => response.err = "ValueError"
        /\ (request.business_name # None /\ response.err = "none") =>
              /\ Len(response.q) >= 2
              /\ response.q[1] = Cond(<<"is_deleted">>, "eq", request.is_deleted)
              /\ response.q[2] = Cond(<<"business_name">>, "eq", request.business_name)

\* C9: the compiler never raises on a malformed raw filter value: it gives a
\* predicate, and raises only the validation error of a missing scope field.
C9_NeverRaisesOnMalformedFilter ==
    Done =>
        \/ response.err = "none"
        \/ /\ response.err = "ValueError"
           /\ \/ TenantScoped(request.cls) /\ request.business_name = None
              \/ OwnerScoped(request.cls) /\ request.user_id = None

\* the base field is filterable for the kind, as its schema declares
Filterable(cls, base_field) ==
    /\ base_field \in BaseFields
            \cup (IF OwnerScoped(cls) THEN {<<"user_id">>} ELSE {})
            \cup (IF TenantScoped(cls) THEN {<<"business_name">>} ELSE {})
            \cup {<<"list_items">>}
    /\ base_field # <<"meta_data">>
    /\ cls = "AllowListEntity" => base_field \in {<<"uid">>, <<"meta_data">>}

\* the key without its trailing _from, _to, _in or _nin
BaseOfKey(key) ==
    IF key # << >> /\ key[Len(key)] \in Suffixes
    THEN SubSeq(key, 1, Len(key) - 1)
    ELSE key

\* the conditions of the predicate after those of the scope
CallerPart(req, q) ==
    LET n == Len(ScopeQuery(req.cls, req.user_id, req.business_name, req.is_deleted,
                            IF req.op \in {"list_items", "total_count"}
                            THEN None ELSE req.uid))
    IN  SubSeq(q, n + 1, Len(q))

C11_PaginationClamped ==
    Done =>
        /\ response.err = "none"
        /\ response.window[1] = (IF request.offset >= 0 THEN request.offset ELSE 0)
        /\ response.window[2] =
              (IF request.limit < 1 THEN 1
               ELSE IF request.limit > page_max_limit THEN page_max_limit
               ELSE request.limit)

\* ------------------------------------------------------- lifecycle properties

\* the call of this step was op and it returned
Returned(op) == request'.op = op /\ response'.err = "none"

\* the scope arguments that name the entity's own owner and tenant
ScopeOf(doc) ==
    [user_id |-> IF <<"user_id">> \in DOMAIN doc THEN doc[<<"user_id">>] ELSE None,
     business_name |-> IF <<"business_name">> \in DOMAIN doc
                       THEN doc[<<"business_name">>] ELSE None]

\* no get_item and no list_items with the scope flag is_deleted gives doc,
\* whatever its other arguments
NeverReturned(cls, docs, doc, is_deleted) ==
    \A scope \in Scopes(cls) \cup {ScopeOf(doc)} :
        /\ \A uid \in {None, doc[<<"uid">>]} :
             get_item(cls, uid, scope.user_id, scope.business_name, is_deleted,
                      << >>, hashseed, docs).ret # <<doc>>
        /\ \A r \in list_items(cls, scope.user_id, scope.business_name, 0, 10,
                               is_deleted, << >>, hashseed, docs) :
             \A i \in 1..Len(r.ret) : r.ret[i] # doc

\* get_item of doc's uid and list_items of the first page, both in doc's own
\* scope and with the scope flag is_deleted, give doc
IsReturned(cls, docs, doc, is_deleted) ==
    /\ get_item(cls, doc[<<"uid">>], ScopeOf(doc).user_id, ScopeOf(doc).business_name,
                is_deleted, << >>, hashseed, docs) = [err |-> "none", ret |-> <<doc>>]
    /\ \A r \in list_items(cls, ScopeOf(doc).user_id, ScopeOf(doc).business_name,
                           0, 10, is_deleted, << >>, hashseed, docs) :
          r.err = "none" /\ \E i \in 1..Len(r.ret) : r.ret[i] = doc

\* the delete_item of this step left the document in the collection, is not
\* returned under the default scope and is returned under is_deleted=true
SoftDeleted ==
    LET doc == store'[request'.id]
    IN  /\ Len(store') = Len(store)
        /\ \A i \in 1..Len(store) : i # request'.id => store'[i] = store[i]
        /\ doc[<<"is_deleted">>] = PyBool(TRUE)
        /\ NeverReturned(request'.cls, store', doc, PyBool(FALSE))
        /\ IsReturned(request'.cls, store', doc, PyBool(TRUE))

\* C12 as stated: after delete_item(entity) no lookup with the default scope
\* (is_deleted=false) returns the entity, a lookup with is_deleted=true does,
\* the stored document still exists, and every field of the document other
\* than is_deleted is unchanged by the delete.
C12_SoftDeleteKeepsOtherFields ==
    [][Returned("delete_item") =>
        /\ SoftDeleted
        /\ \A f \in DOMAIN store[request'.id] \ {<<"is_deleted">>} :
             store'[request'.id][f] = store[request'.id][f]
      ]_vars

\* C12 as amended: after a delete_item(entity) that returns, no lookup with
\* the default scope returns the entity, a lookup with is_deleted=true in the
\* entity's scope does, the stored document still exists, and every field
\* other than is_deleted and updated_at is unchanged by the delete;
\* updated_at is the time of the save.
C12_SoftDeleteRefreshesUpdatedAt ==
    [][Returned("delete_item") =>
        /\ SoftDeleted
        /\ \A f \in DOMAIN store[request'.id] \ {<<"is_deleted">>, <<"updated_at">>} :
             store'[request'.id][f] = store[request'.id][f]
        /\ store'[request'.id][<<"updated_at">>] = PyDatetime(now')
        /\ now' >= now
      ]_vars

\* a delete_item returned at a later time than the entity was last saved,
\* while the collection holds another entity that is not deleted
C12_Witness ==
    /\ request.op = "delete_item"
    /\ response.err = "none"
    /\ Len(store) = 2
    /\ store[request.id][<<"is_deleted">>] = PyBool(TRUE)
    /\ store[request.id][<<"meta_data">>] = PyDict
    /\ store[request.id][<<"updated_at">>].at > store[request.id][<<"created_at">>].at
    /\ \E i \in 1..Len(store) : store[i][<<"is_deleted">>] = PyBool(FALSE)

\* the payload of the create_item of this step gives every field without a
\* default and no uid a stored document has
Creatable ==
    /\ \A f \in RequiredFields(request'.cls) : KwHas(request'.data, f)
    /\ \A i \in 1..Len(store) :
         ~(KwHas(request'.data, <<"uid">>)
             /\ store[i][<<"uid">>] = KwGet(request'.data, <<"uid">>))

\* C13: for every immutable kind update_item and delete_item always fail
\* with an immutability error, whatever the entity and the payload, and
\* leave the stored state as it was; create_item still succeeds.
C13_ImmutableRejectsWritesOnly ==
    [][request'.cls \in ImmutableKinds =>
        /\ request'.op \in {"update_item", "delete_item"} =>
              response'.err = "ValueError" /\ store' = store
        /\ (request'.op = "create_item" /\ Creatable) =>
              /\ response'.err = "none"
              /\ store' = Append(store, response'.ret[1])
      ]_vars

\* C14: create_item never takes a server-controlled field from the caller:
\* whatever the payload holds, the created entity has the identifier uuid4
\* generated, the creation time as created_at, the time of the save as
\* updated_at, and is_deleted false.
C14_CreateIgnoresServerFields ==
    [][Returned("create_item") =>
        LET item == response'.ret[1]
        IN  /\ item[<<"uid">>] = uuid4(store)
            /\ item[<<"created_at">>].at >= now
            /\ item[<<"created_at">>].at <= now'
            /\ item[<<"updated_at">>] = PyDatetime(now')
            /\ item[<<"is_deleted">>] = PyBool(FALSE)
      ]_vars

\* the field may be changed by update_item on the kind: it is a field of the
\* kind's entities, it is not in the kind's update deny-list, and it is in
\* the update allow-list when the kind declares one
Updatable(cls, f) ==
    /\ f \in {<<"uid">>, <<"created_at">>, <<"updated_at">>, <<"is_deleted">>,
              <<"meta_data">>}
            \cup (IF OwnerScoped(cls) THEN {<<"user_id">>} ELSE {})
            \cup (IF TenantScoped(cls) THEN {<<"business_name">>} ELSE {})
    /\ f \notin {<<"uid">>, <<"created_at">>, <<"updated_at">>}
    /\ ~(OwnerScoped(cls) /\ f = <<"user_id">>)
    /\ ~(TenantScoped(cls) /\ f = <<"business_name">>)
    /\ cls = "AllowListEntity" => f \in {<<"uid">>, <<"meta_data">>}

\* C15: update_item(entity, payload) changes a field of the entity only if
\* the payload has a key for it that is an attribute, is not in the update
\* deny-list and is in the update allow-list when one is declared; such a
\* field takes the payload's value, updated_at is the time of the save, and
\* every other field is as before: uid, created_at, user_id and
\* business_name never change. An update_item that fails stores nothing.
C15_UpdateChangesOnlyPermittedFields ==
    [][request'.op = "update_item" =>
        IF response'.err # "none" THEN store' = store
        ELSE LET id == request'.id
                 data == request'.data
             IN  /\ Len(store') = Len(store)
                 /\ \A i \in 1..Len(store) : i # id => store'[i] = store[i]
                 /\ DOMAIN store'[id] = DOMAIN store[id]
                 /\ response'.ret = <<store'[id]>>
                 /\ \A f \in DOMAIN store[id] :
                      store'[id][f] =
                          IF f = <<"updated_at">> THEN PyDatetime(now')
                          ELSE IF Updatable(request'.cls, f) /\ KwHas(data, f)
                          THEN KwGet(data, f)
                          ELSE store[id][f]
                 /\ \A f \in {<<"uid">>, <<"created_at">>, <<"user_id">>,
                              <<"business_name">>} \cap DOMAIN store[id] :
                      store'[id][f] = store[id][f]
      ]_vars

\* an update_item with a payload that names every field returned for an
\* entity of a tenant-and-owner kind created without it: meta_data and
\* is_deleted took the payload's values, updated_at is later than
\* created_at, and uid, created_at, user_id and business_name are not the
\* payload's
C15_Witness ==
    /\ request.op = "update_item"
    /\ response.err = "none"
    /\ request.cls = "BusinessOwnedEntity"
    /\ Len(request.data) = 8
    /\ LET item == store[request.id]
       IN  /\ item[<<"meta_data">>] = PyDict
           /\ item[<<"is_deleted">>] = PyBool(TRUE)
           /\ item[<<"uid">>] = PyUUID("1")
           /\ item[<<"user_id">>] = PyUUID("user1")
           /\ item[<<"business_name">>] = PyStr(<<"a">>)
           /\ item[<<"created_at">>] = PyDatetime(0)
           /\ item[<<"updated_at">>] = PyDatetime(1)

\* C16: in every reachable state, after any sequence of create_item,
\* update_item and delete_item calls with any payloads, every stored entity
\* has created_at <= updated_at.
C16_CreatedNotAfterUpdated ==
    \A i \in 1..Len(store) :
        store[i][<<"created_at">>].at <= store[i][<<"updated_at">>].at

\* the stored documents that satisfy every condition of the predicate
Matching(q) ==
    {i \in 1..Len(store) : \A j \in 1..Len(q) : MatchCond(store[i], q[j])}

\* C17: get_item(uid, scope): when no document matches the compiled
\* predicate the result is None and nothing is raised; when exactly one
\* matches it is returned; when more than one matches the call raises and
\* returns none of them. (A lookup that fails its scope check compiles no
\* predicate and raises that error.)
C17_GetItemNoneOneOrError ==
    request.op = "get_item" =>
        LET compiled == get_item_query(request.cls, request.uid, request.user_id,
                                       request.business_name, request.is_deleted,
                                       request.kwargs, hashseed)
            found == Matching(compiled.q)
        IN  IF compiled.err # "none"
            THEN response.err = compiled.err /\ response.ret = << >>
            ELSE /\ found = {} => response.err = "none" /\ response.ret = << >>
                 /\ Cardinality(found) = 1 =>
                      /\ response.err = "none"
                      /\ \A i \in found : response.ret = <<store[i]>>
                 /\ Cardinality(found) > 1 =>
                      response.err = "ValueError" /\ response.ret = << >>

\* a get_item without a uid matched both documents of the collection and
\* raised
C17_Witness ==
    /\ request.op = "get_item"
    /\ request.uid = None
    /\ request.cls = "BusinessOwnedEntity"
    /\ request.business_name = PyStr(<<"a">>)
    /\ Cardinality(Matching(ScopeQuery(request.cls, request.user_id,
                                       request.business_name, request.is_deleted,
                                       request.uid))) = 2
    /\ response.err = "ValueError"

====
